---- MODULE Spec2Model ----
(***************************************************************************)
(* Remote power-state management of go-amt (src/power.go): the status      *)
(* reader getPowerStatus, the operations powerOn, powerOff, powerCycle and *)
(* isPoweredOn, the transition primitive requestpowerState and the         *)
(* state-selection helpers.  Every remote round trip (status enumeration,  *)
(* managed-system reference lookup, invocation) is one step of a caller;   *)
(* the local code that follows a round trip up to the next one belongs to  *)
(* the same step.                                                          *)
(***************************************************************************)
EXTENDS Integers, Sequences, FiniteSets, TLC

(***************************************************************************)
(* powerState constants, power.go lines 19-40.                             *)
(***************************************************************************)
powerStateUnknown == 0
powerStateOther == 1
powerStateOn == 2
powerStateSleepLight == 3
powerStateSleepDeep == 4
powerStatePowerCycleOffSoft == 5
powerStateOffHard == 6
powerStateHibernateOffSoft == 7
powerStateOffSoft == 8
powerStatePowerCycleOffHard == 9
powerStateMasterBusReset == 10
powerStateDiagnosticInterruptNMI == 11
powerStateOffSoftGraceful == 12
powerStateOffHardGraceful == 13
powerStateMasterBusResetGraceful == 14
powerStatePowerCycleOffSoftGraceful == 15
powerStatePowerCycleOffHardGraceful == 16
powerStateDiagnosticInterruptInit == 17
\* A vendor-specific code outside the named constants (0x7FFF..0xFFFF).
VendorCode == 32768
\* A code of the DMTF-reserved range, outside the named constants.
ReservedCode == 30000

(***************************************************************************)
(* Bounds of the model.                                                    *)
(***************************************************************************)
\* Longest list of available states a device advertises in one response.
MaxAvail == 2

\* Callers of the package; Spec runs the first one alone.
Callers == {1, 2}

(***************************************************************************)
(* Sequences helpers.                                                      *)
(***************************************************************************)
Range(s) == {s[i] : i \in 1..Len(s)}

SeqsUpTo(S, n) == UNION {[1..k -> S] : k \in 0..n}

(***************************************************************************)
(* strconv.Atoi and fmt.Sprint(int) on strings, a string being a sequence  *)
(* of one-character strings.                                               *)
(***************************************************************************)
Digits == <<"0", "1", "2", "3", "4", "5", "6", "7", "8", "9">>

IsDigit(ch) == \E d \in 1..10 : Digits[d] = ch

DigitVal(ch) == (CHOOSE d \in 1..10 : Digits[d] = ch) - 1

RECURSIVE DigitsVal(_)
DigitsVal(s) ==
    IF s = <<>> THEN 0
    ELSE 10 * DigitsVal(SubSeq(s, 1, Len(s) - 1)) + DigitVal(s[Len(s)])

\* Mutant of the conversion: a value outside the named constants is read
\* as unknown (0).
AtoiNamedOnly(s) ==
    LET signed == s # <<>> /\ s[1] \in {"+", "-"}
        body   == IF signed THEN Tail(s) ELSE s
    IN  IF body = <<>> \/ \E i \in 1..Len(body) : ~IsDigit(body[i])
        THEN [ok |-> FALSE, num |-> 0]
        ELSE [ok |-> TRUE,
              num |-> IF signed \/ DigitsVal(body) > 17 THEN 0
                      ELSE DigitsVal(body)]

\* strconv.Atoi: an optional sign, then one or more decimal digits.
Atoi(s) ==
    LET signed == s # <<>> /\ s[1] \in {"+", "-"}
        body   == IF signed THEN Tail(s) ELSE s
    IN  IF body = <<>> \/ \E i \in 1..Len(body) : ~IsDigit(body[i])
        THEN [ok |-> FALSE, num |-> 0]
        ELSE [ok |-> TRUE,
              num |-> IF signed /\ s[1] = "-" THEN 0 - DigitsVal(body)
                      ELSE DigitsVal(body)]

RECURSIVE NatStr(_)
NatStr(n) ==
    IF n < 10 THEN <<Digits[n + 1]>>
    ELSE Append(NatStr(n \div 10), Digits[(n % 10) + 1])

\* fmt.Sprint(int(x)), power.go line 168.
Sprint(n) == IF n < 0 THEN <<"-">> \o NatStr(0 - n) ELSE NatStr(n)

(***************************************************************************)
(* powerStatus, power.go lines 42-46.                                      *)
(***************************************************************************)
NoStatus ==
    [powerState |-> 0, RequestedpowerState |-> 0,
     AvailableRequestedpowerStates |-> <<>>, set |-> FALSE]

MkStatus(ps, rps, aps) ==
    [powerState |-> ps, RequestedpowerState |-> rps,
     AvailableRequestedpowerStates |-> aps, set |-> TRUE]

(***************************************************************************)
(* Errors.  One record shape for all: the kind, the function that made or  *)
(* met it, and for NoTransitionAvailable the states it names.              *)
(***************************************************************************)
MkErr(kind, by, target, cur, avail) ==
    [kind |-> kind, by |-> by, target |-> target, cur |-> cur, avail |-> avail]

Nil == MkErr("nil", "", 0, 0, <<>>)

Err(kind, by) == MkErr(kind, by, 0, 0, <<>>)

\* fmt.Errorf("there is no implemented transition state ..."), lines 114, 136, 164.
NoTransition(by, target, st) ==
    MkErr("NoTransitionAvailable", by, target,
          st.powerState, st.AvailableRequestedpowerStates)

(***************************************************************************)
(* What the transport hands back: the response of an enumeration (Send and *)
(* EnumItems, lines 52 and 193), made of items with child elements, and    *)
(* the response of an invocation (Send and GetBody, lines 175 and 180).    *)
(***************************************************************************)
Elem(local, content) == [local |-> local, content |-> content]

Item(local, space, children) ==
    [local |-> local, space |-> space, children |-> children]

StatusResponse(sendErr, enumErr, items) ==
    [sendErr |-> sendErr, enumErr |-> enumErr, items |-> items]

StatusOk(items) == StatusResponse("none", "none", items)

InvokeResponse(sendErr, bodyNil, bodyChildren) ==
    [sendErr |-> sendErr, bodyNil |-> bodyNil, bodyChildren |-> bodyChildren]

(***************************************************************************)
(* The status reader.                                                      *)
(***************************************************************************)
AssocLocal == "CIM_AssociatedPowerManagementService"
AssocSpace == "resourceCIMAssociatedPowerManagementService"

\* getPowerManagementElements, lines 192-205: the children of the first
\* enumeration item that is the association item, or an error.
getPowerManagementElements(response) ==
    IF response.enumErr # "none"
    THEN [err |-> Err(response.enumErr, "EnumItems"), elems |-> <<>>]
    ELSE LET hits == {i \in 1..Len(response.items) :
                         /\ response.items[i].local = AssocLocal
                         /\ response.items[i].space = AssocSpace}
         IN  IF hits = {}
             THEN [err |-> Err("ProtocolError", "getPowerManagementElements"),
                   elems |-> <<>>]
             ELSE [err |-> Nil,
                   elems |-> response.items[CHOOSE i \in hits :
                                               \A j \in hits : i <= j].children]

\* Mutant of the loop of getPowerStatus: on a non-numeric content it
\* returns the error together with the status filled so far.
RECURSIVE parseElementsPartial(_, _, _)
parseElementsPartial(elems, i, status) ==
    IF i > Len(elems) THEN [err |-> Nil, status |-> status]
    ELSE LET e == elems[i]
             n == Atoi(e.content)
         IN  IF e.local \notin {"PowerState", "RequestedPowerState",
                                "AvailableRequestedPowerStates"}
             THEN parseElementsPartial(elems, i + 1, status)
             ELSE IF ~n.ok
             THEN [err |-> Err("DecodeError", "getPowerStatus"), status |-> status]
             ELSE IF e.local = "PowerState"
             THEN parseElementsPartial(elems, i + 1,
                                       [status EXCEPT !.powerState = n.num])
             ELSE IF e.local = "RequestedPowerState"
             THEN parseElementsPartial(elems, i + 1,
                                       [status EXCEPT !.RequestedpowerState = n.num])
             ELSE parseElementsPartial(elems, i + 1,
                      [status EXCEPT !.AvailableRequestedpowerStates =
                                         Append(@, n.num)])

\* The loop of getPowerStatus, lines 64-85, from element i on.
RECURSIVE parseElements(_, _, _)
parseElements(elems, i, status) ==
    IF i > Len(elems) THEN [err |-> Nil, status |-> status]
    ELSE LET e == elems[i]
             n == Atoi(e.content)
         IN  IF e.local \notin {"PowerState", "RequestedPowerState",
                                "AvailableRequestedPowerStates"}
             THEN parseElements(elems, i + 1, status)
             ELSE IF ~n.ok
             THEN [err |-> Err("DecodeError", "getPowerStatus"), status |-> NoStatus]
             ELSE IF e.local = "PowerState"
             THEN parseElements(elems, i + 1, [status EXCEPT !.powerState = n.num])
             ELSE IF e.local = "RequestedPowerState"
             THEN parseElements(elems, i + 1,
                                [status EXCEPT !.RequestedpowerState = n.num])
             ELSE parseElements(elems, i + 1,
                      [status EXCEPT !.AvailableRequestedpowerStates =
                                         Append(@, n.num)])

\* getPowerStatus, lines 48-88, applied to what message.Send returned.
getPowerStatus(response) ==
    IF response.sendErr # "none"
    THEN [err |-> Err(response.sendErr, "Send"), status |-> NoStatus]
    ELSE LET pm == getPowerManagementElements(response)
         IN  IF pm.err # Nil THEN [err |-> pm.err, status |-> NoStatus]
             ELSE parseElements(pm.elems, 1, MkStatus(0, 0, <<>>))

(***************************************************************************)
(* Classification and selection, power.go lines 147-155 and 220-256.       *)
(***************************************************************************)
\* Mutant of isPoweredOnGivenStatus: every state that is not one of the
\* off states counts as on.
isPoweredOnUnlessOff(status) ==
    status.powerState \notin
        {powerStateOffHard, powerStateHibernateOffSoft, powerStateOffSoft,
         powerStateOffSoftGraceful, powerStateOffHardGraceful}

isPoweredOnGivenStatus(status) == status.powerState = powerStateOn

getPowerOffStates ==
    <<powerStateOffSoftGraceful, powerStateOffSoft,
      powerStateOffHardGraceful, powerStateOffHard>>

getPowerCycleStates ==
    <<powerStatePowerCycleOffSoftGraceful, powerStatePowerCycleOffSoft,
      powerStateMasterBusResetGraceful, powerStatePowerCycleOffHardGraceful,
      powerStatePowerCycleOffHard, powerStateMasterBusReset>>

RECURSIVE containsFrom(_, _, _)
containsFrom(s, e, i) ==
    IF i > Len(s) THEN FALSE
    ELSE IF s[i] = e THEN TRUE
    ELSE containsFrom(s, e, i + 1)

containspowerState(s, e) == containsFrom(s, e, 1)

\* Mutant of the loop of selectNextState: the requested states are
\* scanned from the last one, the least preferred available state wins.
RECURSIVE selectFromBackwards(_, _, _)
selectFromBackwards(requestedStates, availableStates, i) ==
    IF i > Len(requestedStates) THEN powerStateUnknown
    ELSE LET a == requestedStates[Len(requestedStates) + 1 - i]
         IN  IF containspowerState(availableStates, a) THEN a
             ELSE selectFromBackwards(requestedStates, availableStates, i + 1)

RECURSIVE selectFrom(_, _, _)
selectFrom(requestedStates, availableStates, i) ==
    IF i > Len(requestedStates) THEN powerStateUnknown
    ELSE IF containspowerState(availableStates, requestedStates[i])
    THEN requestedStates[i]
    ELSE selectFrom(requestedStates, availableStates, i + 1)

\* Mutant of selectNextState: the loops are swapped, the first available
\* state that is a requested state wins.
selectNextStateAvailableFirst(requestedStates, availableStates) ==
    selectFrom(availableStates, requestedStates, 1)

selectNextState(requestedStates, availableStates) ==
    selectFrom(requestedStates, availableStates, 1)

(***************************************************************************)
(* The code of each function after its status read: what it returns or     *)
(* which call it makes next.  next is "return", "request" (a call of       *)
(* requestpowerState with argument requested) or "powerOn" (powerCycle's   *)
(* delegation); request is the local of lines 108 and 129, -1 where the    *)
(* function has not assigned it.                                           *)
(***************************************************************************)
Decision(next, err, request, requested) ==
    [err |-> err, next |-> next, request |-> request, requested |-> requested]

Return(err) == Decision("return", err, -1, -1)

\* Mutant of isPoweredOn: a failed status read is taken as "not on".
isPoweredOnSwallowsError(g) ==
    IF g.err # Nil THEN [err |-> Nil, isOn |-> FALSE]
    ELSE [err |-> Nil, isOn |-> isPoweredOnGivenStatus(g.status)]

\* isPoweredOn, lines 139-145, given getPowerStatus's result.
isPoweredOn(g) ==
    IF g.err # Nil THEN [err |-> g.err, isOn |-> FALSE]
    ELSE [err |-> Nil, isOn |-> isPoweredOnGivenStatus(g.status)]

\* Mutant of powerOn: the early return of lines 95-97 is missing.
powerOnNoEarlyReturn(r) ==
    IF r.err # Nil THEN Return(r.err)
    ELSE Decision("request", Nil, -1, powerStateOn)

\* powerOn, lines 90-100, given isPoweredOn's result.
powerOn(r) ==
    IF r.err # Nil THEN Return(r.err)
    ELSE IF r.isOn THEN Return(Nil)
    ELSE Decision("request", Nil, -1, powerStateOn)

\* Mutant of powerOff: the test of line 107 is missing, a target is
\* selected whatever the current state.
powerOffAnyState(g) ==
    IF g.err # Nil THEN Return(g.err)
    ELSE LET request == selectNextState(getPowerOffStates,
                            g.status.AvailableRequestedpowerStates)
         IN  IF request # powerStateUnknown
             THEN Decision("request", Nil, request, request)
             ELSE Decision("return", NoTransition("powerOff", 0, g.status),
                           request, -1)

\* Mutant of powerOff: like powerCycle at line 126, it calls powerOn when
\* the device is not on.
powerOffDelegates(g) ==
    IF g.err # Nil THEN Return(g.err)
    ELSE IF isPoweredOnGivenStatus(g.status)
    THEN LET request == selectNextState(getPowerOffStates,
                            g.status.AvailableRequestedpowerStates)
         IN  IF request # powerStateUnknown
             THEN Decision("request", Nil, request, request)
             ELSE Decision("return", NoTransition("powerOff", 0, g.status),
                           request, -1)
    ELSE Decision("powerOn", Nil, -1, -1)

\* Mutant of powerOff: line 110 tests request >= 0, as line 131 does.
powerOffSentinelPasses(g) ==
    IF g.err # Nil THEN Return(g.err)
    ELSE IF isPoweredOnGivenStatus(g.status)
    THEN LET request == selectNextState(getPowerOffStates,
                            g.status.AvailableRequestedpowerStates)
         IN  IF request >= 0
             THEN Decision("request", Nil, request, request)
             ELSE Decision("return", NoTransition("powerOff", 0, g.status),
                           request, -1)
    ELSE Return(Nil)

\* powerOff, lines 102-117, given getPowerStatus's result.
powerOff(g) ==
    IF g.err # Nil THEN Return(g.err)
    ELSE IF isPoweredOnGivenStatus(g.status)
    THEN LET request == selectNextState(getPowerOffStates,
                            g.status.AvailableRequestedpowerStates)
         IN  IF request # powerStateUnknown
             THEN Decision("request", Nil, request, request)
             ELSE Decision("return", NoTransition("powerOff", 0, g.status),
                           request, -1)
    ELSE Return(Nil)

\* Mutant of powerCycle: no delegation to powerOn, a device that is not on
\* is cycled like one that is.
powerCycleNoDelegation(g) ==
    IF g.err # Nil THEN Return(g.err)
    ELSE LET request == selectNextState(getPowerCycleStates,
                            g.status.AvailableRequestedpowerStates)
         IN  IF request >= 0
             THEN Decision("request", Nil, request, request)
             ELSE Decision("return", NoTransition("powerCycle", 0, g.status),
                           request, -1)

\* powerCycle, lines 119-137, given getPowerStatus's result.
powerCycle(g) ==
    IF g.err # Nil THEN Return(g.err)
    ELSE IF ~isPoweredOnGivenStatus(g.status)
    THEN Decision("powerOn", Nil, -1, -1)
    ELSE LET request == selectNextState(getPowerCycleStates,
                            g.status.AvailableRequestedpowerStates)
         IN  IF request >= 0
             THEN Decision("request", Nil, request, request)
             ELSE Decision("return", NoTransition("powerCycle", 0, g.status),
                           request, -1)

\* Mutant of requestpowerState: the validation of lines 163-165 is missing.
requestpowerStateNoValidation(g, requestedpowerState) ==
    IF g.err # Nil THEN g.err ELSE Nil

\* requestpowerState, lines 158-165, given getPowerStatus's result: the
\* error it returns, or Nil when it goes on to build the invocation.
requestpowerStateCheck(g, requestedpowerState) ==
    IF g.err # Nil THEN g.err
    ELSE IF ~containspowerState(g.status.AvailableRequestedpowerStates,
                                requestedpowerState)
    THEN NoTransition("requestpowerState", requestedpowerState, g.status)
    ELSE Nil

\* Mutant of makeManagedElement: the test of lines 212-214 is missing, an
\* absent reference is used like a reference.
makeManagedElementNilPasses(ref) ==
    IF ref.err # "none" THEN Err(ref.err, "getComputerSystemRef")
    ELSE Nil

\* makeManagedElement, lines 207-218, given what getComputerSystemRef
\* returned: an error, no reference, or a reference.
makeManagedElement(ref) ==
    IF ref.err # "none" THEN Err(ref.err, "getComputerSystemRef")
    ELSE IF ref.nil THEN Err("MissingReference", "makeManagedElement")
    ELSE Nil

\* Mutant of requestpowerState: line 181 accepts a body with more than one
\* child and reads the first.
requestpowerStateResultFirstChild(response) ==
    IF response.sendErr # "none"
    THEN [err |-> Err(response.sendErr, "Send"), code |-> -1]
    ELSE IF response.bodyNil \/ Len(response.bodyChildren) < 1
    THEN [err |-> Err("ProtocolError", "requestpowerState"), code |-> -1]
    ELSE LET n == Atoi(response.bodyChildren[1])
         IN  IF ~n.ok
             THEN [err |-> Err("DecodeError", "requestpowerState"), code |-> -1]
             ELSE [err |-> Nil, code |-> n.num]

\* requestpowerState, lines 175-189, given what message.Send returned:
\* the acknowledgment code and the error.
requestpowerStateResult(response) ==
    IF response.sendErr # "none"
    THEN [err |-> Err(response.sendErr, "Send"), code |-> -1]
    ELSE IF response.bodyNil \/ Len(response.bodyChildren) # 1
    THEN [err |-> Err("ProtocolError", "requestpowerState"), code |-> -1]
    ELSE LET n == Atoi(response.bodyChildren[1])
         IN  IF ~n.ok
             THEN [err |-> Err("DecodeError", "requestpowerState"), code |-> -1]
             ELSE [err |-> Nil, code |-> n.num]

\* Mutant of the return of the operations: an acknowledgment code other
\* than 0 is turned into an error.
returnOfChecksCode(code, err) ==
    IF err = Nil /\ code # 0 THEN Err("DeviceError", "requestpowerState")
    ELSE err

\* What powerOn, powerOff and powerCycle return after requestpowerState
\* returned (val, err): lines 98-99, 111-112, 132-133.
returnOf(code, err) == err

(***************************************************************************)
(* The responses the callers meet: the device may advertise any state and  *)
(* any list of available states at each read, and every remote call may    *)
(* fail.                                                                   *)
(***************************************************************************)
TransportErrs == {"TransportError:refused", "TransportError:canceled"}

\* Current states a device reports.
CurCodes == {powerStateUnknown, powerStateOn, powerStateOffSoft, VendorCode}

\* Every named constant, and vendor-specific codes.
AllCodes ==
    (powerStateUnknown..powerStateDiagnosticInterruptInit)
    \cup {ReservedCode, VendorCode, VendorCode + 1}

\* States a device advertises as available.
AvailCodes ==
    {powerStateUnknown, powerStateOn, powerStateOffSoftGraceful, powerStateOffHard,
     powerStatePowerCycleOffSoftGraceful, powerStateMasterBusReset}

AvailLists == SeqsUpTo(AvailCodes, MaxAvail)

\* The association item of a device in state cur with requested state req
\* advertising avail.
AssocItem(cur, req, avail) ==
    Item(AssocLocal, AssocSpace,
         [i \in 1..Len(avail) |->
             Elem("AvailableRequestedPowerStates", Sprint(avail[i]))]
         \o <<Elem("ElementName", <<"P", "M">>),
              Elem("PowerState", Sprint(cur)),
              Elem("RequestedPowerState", Sprint(req))>>)

OtherItem == Item("CIM_ComputerSystem", AssocSpace, <<>>)

StatusResponses ==
    {StatusResponse(e, "none", <<>>) : e \in TransportErrs}
    \cup {StatusResponse("none", "ProtocolError", <<>>)}
    \cup {StatusOk(<<>>), StatusOk(<<OtherItem>>)}
    \cup {StatusOk(<<Item(AssocLocal, AssocSpace,
                          <<Elem("PowerState", <<"o", "n">>)>>)>>)}
    \cup {StatusOk(<<Item(AssocLocal, "resourceCIMComputerSystem",
                          <<Elem("PowerState", Sprint(powerStateOn))>>)>>)}
    \cup {StatusOk(<<Item(AssocLocal, AssocSpace,
                          <<Elem("AvailableRequestedPowerStates",
                                 Sprint(powerStateOffSoftGraceful)),
                            Elem("PowerState", Sprint(powerStateOn)),
                            Elem("RequestedPowerState", <<>>)>>)>>)}
    \cup {StatusOk(<<Item(AssocLocal, AssocSpace,
                          <<Elem("AvailableRequestedPowerStates",
                                 Sprint(powerStateOffSoftGraceful))>>)>>)}
    \cup {StatusOk(<<OtherItem, AssocItem(cur, powerStateOffSoft, avail)>>) :
             cur \in CurCodes, avail \in AvailLists}
    \cup {StatusOk(<<AssocItem(cur, cur, <<>>)>>) : cur \in AllCodes}

\* getPowerStatus applied to each response the transport may hand back.
Reads(responses) ==
    {[response |-> r, parsed |-> getPowerStatus(r)] : r \in responses}

StatusReads == Reads(StatusResponses)

\* The responses two callers of the same device meet: the device on or
\* soft off, advertising a graceful soft off alone or after a hard off, or
\* the connection refused.
ConcResponses ==
    {StatusResponse("TransportError:refused", "none", <<>>)}
    \cup {StatusOk(<<OtherItem, AssocItem(cur, powerStateOffSoft, avail)>>) :
             cur \in {powerStateOn, powerStateOffSoft},
             avail \in {<<powerStateOffSoftGraceful>>,
                        <<powerStateOffHard, powerStateOffSoftGraceful>>}}

ConcReads == Reads(ConcResponses)

\* The responses that take an operation through each of its paths: the
\* connection refused, a content that is not numeric, and the device on or
\* soft off advertising nothing, On, a graceful soft off, a graceful power
\* cycle or the code 0.
LiveResponses ==
    {StatusResponse("TransportError:refused", "none", <<>>)}
    \cup {StatusOk(<<Item(AssocLocal, AssocSpace,
                          <<Elem("PowerState", <<"o", "n">>)>>)>>)}
    \cup {StatusOk(<<OtherItem, AssocItem(cur, powerStateOffSoft, avail)>>) :
             cur \in {powerStateOn, powerStateOffSoft},
             avail \in {<<>>, <<powerStateOn>>, <<powerStateOffSoftGraceful>>,
                        <<powerStatePowerCycleOffSoftGraceful>>,
                        <<powerStateUnknown>>}}

LiveReads == Reads(LiveResponses)

\* What getComputerSystemRef(ctx, client, "ManagedSystem") returns.
RefResponses ==
    {[err |-> e, nil |-> TRUE] : e \in TransportErrs}
    \cup {[err |-> "none", nil |-> n] : n \in BOOLEAN}

\* What Send and GetBody return for the invocation of lines 167-180.
InvokeResponses ==
    {InvokeResponse(e, TRUE, <<>>) : e \in TransportErrs}
    \cup {InvokeResponse("none", TRUE, <<>>)}
    \cup {InvokeResponse("none", FALSE, ch) :
             ch \in {<<>>, <<<<"0">>>>, <<<<"2">>>>, <<<<"o", "k">>>>,
                     <<<<"0">>, <<"0">>>>}}

(***************************************************************************)
(* State: per caller, the operation it runs and where it stands in it, the *)
(* status it read last, and what the transport saw.  A function never      *)
(* reads a status again once a later getPowerStatus has returned (powerOff *)
(* and powerCycle only pass on what requestpowerState or powerOn returns), *)
(* so one status per caller is held: that of the latest read.              *)
(***************************************************************************)
VARIABLES
    op,        \* the public operation in progress, or "none"
    pc,        \* the function about to make the next remote call
    deleg,     \* powerCycle has called powerOn (line 126)
    enumResp,  \* what the latest enumeration returned (response, line 52)
    status,    \* the status of the latest getPowerStatus (lines 103, 120, 140, 159)
    readBy,    \* the function that made that read
    isOn,      \* isPoweredOn's boolean result
    request,   \* request of powerOff / powerCycle (lines 108, 129), -1 if unset
    requested, \* requestedpowerState of requestpowerState, -1 outside it
    offered,   \* the caller's own status listed the state it passes
    calls,     \* the remote round trips made, in order
    sent,      \* the PowerState parameters of the invocations sent
    failure,   \* the error of the latest remote call, Nil if it succeeded
    managedSystemRef, \* what the reference lookup returned (line 208)
    invokeResp, \* what the invocation returned (response, line 175)
    overlap,   \* another caller was inside requestpowerState for the same
               \* target when this caller's invocation went out
    ack,       \* requestpowerState's integer result
    result     \* the error the operation returned, once done

vars == <<op, pc, deleg, enumResp, status, readBy, isOn, request, requested,
          offered, calls, sent, failure, managedSystemRef, invokeResp, overlap,
          ack, result>>

Ops == {"powerOn", "powerOff", "powerCycle", "isPoweredOn"}

\* Before the first enumeration, lookup and invocation of an operation.
NoEnum == StatusResponse("unsent", "none", <<>>)
NoRef == [err |-> "unsent", nil |-> TRUE]
NoInvoke == InvokeResponse("unsent", TRUE, <<>>)

\* The function that makes the first status read of each operation.
Entry(o) == IF o = "powerOn" THEN "isPoweredOn" ELSE o

Init ==
    /\ op = [c \in Callers |-> "none"]
    /\ pc = [c \in Callers |-> "idle"]
    /\ deleg = [c \in Callers |-> FALSE]
    /\ enumResp = [c \in Callers |-> NoEnum]
    /\ status = [c \in Callers |-> NoStatus]
    /\ readBy = [c \in Callers |-> "none"]
    /\ isOn = [c \in Callers |-> FALSE]
    /\ request = [c \in Callers |-> -1]
    /\ requested = [c \in Callers |-> -1]
    /\ offered = [c \in Callers |-> FALSE]
    /\ calls = [c \in Callers |-> <<>>]
    /\ sent = [c \in Callers |-> <<>>]
    /\ failure = [c \in Callers |-> Nil]
    /\ managedSystemRef = [c \in Callers |-> NoRef]
    /\ invokeResp = [c \in Callers |-> NoInvoke]
    /\ overlap = [c \in Callers |-> FALSE]
    /\ ack = [c \in Callers |-> -1]
    /\ result = [c \in Callers |-> Nil]

\* A caller starts a public operation: nothing is kept from earlier calls.
Call(c) ==
    /\ pc[c] \in {"idle", "done"}
    /\ \E o \in Ops :
          /\ op' = [op EXCEPT ![c] = o]
          /\ pc' = [pc EXCEPT ![c] = Entry(o)]
    /\ deleg' = [deleg EXCEPT ![c] = FALSE]
    /\ enumResp' = [enumResp EXCEPT ![c] = NoEnum]
    /\ status' = [status EXCEPT ![c] = NoStatus]
    /\ readBy' = [readBy EXCEPT ![c] = "none"]
    /\ isOn' = [isOn EXCEPT ![c] = FALSE]
    /\ request' = [request EXCEPT ![c] = -1]
    /\ requested' = [requested EXCEPT ![c] = -1]
    /\ offered' = [offered EXCEPT ![c] = FALSE]
    /\ calls' = [calls EXCEPT ![c] = <<>>]
    /\ sent' = [sent EXCEPT ![c] = <<>>]
    /\ failure' = [failure EXCEPT ![c] = Nil]
    /\ managedSystemRef' = [managedSystemRef EXCEPT ![c] = NoRef]
    /\ invokeResp' = [invokeResp EXCEPT ![c] = NoInvoke]
    /\ overlap' = [overlap EXCEPT ![c] = FALSE]
    /\ ack' = [ack EXCEPT ![c] = -1]
    /\ result' = [result EXCEPT ![c] = Nil]

\* The enumeration round trip of getPowerStatus made by the function at
\* pc[c]: read is the response with what getPowerStatus makes of it.
StatusTrip(c, read) ==
    /\ calls' = [calls EXCEPT ![c] = Append(@, "status")]
    /\ enumResp' = [enumResp EXCEPT ![c] = read.response]
    /\ failure' = [failure EXCEPT ![c] = read.parsed.err]
    /\ status' = [status EXCEPT ![c] = read.parsed.status]
    /\ readBy' = [readBy EXCEPT ![c] = pc[c]]

\* Mutant of the control flow: powerOn, called by powerCycle at line 126,
\* calls powerCycle back.
FollowLoopsBack(c, g, d) ==
    /\ pc' = [pc EXCEPT ![c] = IF d.next = "return" THEN "done"
                               ELSE IF d.next = "powerOn" THEN "powerCycle"
                               ELSE "requestpowerState"]
    /\ deleg' = [deleg EXCEPT ![c] = @ \/ d.next = "powerOn"]
    /\ request' = [request EXCEPT ![c] = d.request]
    /\ requested' = [requested EXCEPT ![c] = d.requested]
    /\ offered' = [offered EXCEPT ![c] =
                      /\ d.next = "request"
                      /\ d.requested \in Range(g.status.AvailableRequestedpowerStates)]
    /\ result' = [result EXCEPT ![c] = d.err]

\* Where decision d, taken on the status of g, leads.
Follow(c, g, d) ==
    /\ pc' = [pc EXCEPT ![c] = IF d.next = "return" THEN "done"
                               ELSE IF d.next = "powerOn" THEN "isPoweredOn"
                               ELSE "requestpowerState"]
    /\ deleg' = [deleg EXCEPT ![c] = @ \/ d.next = "powerOn"]
    /\ request' = [request EXCEPT ![c] = d.request]
    /\ requested' = [requested EXCEPT ![c] = d.requested]
    /\ offered' = [offered EXCEPT ![c] =
                      /\ d.next = "request"
                      /\ d.requested \in Range(g.status.AvailableRequestedpowerStates)]
    /\ result' = [result EXCEPT ![c] = d.err]

\* In the steps below R is a set of status reads: responses of the
\* transport, each with what getPowerStatus makes of it.

\* powerOff up to its return or its call of requestpowerState.
PowerOffRead(c, R) ==
    /\ pc[c] = "powerOff"
    /\ \E read \in R :
          LET g == read.parsed
          IN  StatusTrip(c, read) /\ Follow(c, g, powerOff(g))
    /\ UNCHANGED <<op, isOn, sent, managedSystemRef, invokeResp, overlap, ack>>

\* powerCycle up to its return, its call of powerOn or of requestpowerState.
PowerCycleRead(c, R) ==
    /\ pc[c] = "powerCycle"
    /\ \E read \in R :
          LET g == read.parsed
          IN  StatusTrip(c, read) /\ Follow(c, g, powerCycle(g))
    /\ UNCHANGED <<op, isOn, sent, managedSystemRef, invokeResp, overlap, ack>>

\* isPoweredOn, and for powerOn (called directly or by powerCycle) the code
\* up to its return or its call of requestpowerState.
IsPoweredOnRead(c, R) ==
    /\ pc[c] = "isPoweredOn"
    /\ \E read \in R :
          LET g == read.parsed
              r == isPoweredOn(g)
          IN  /\ StatusTrip(c, read)
              /\ isOn' = [isOn EXCEPT ![c] = r.isOn]
              /\ IF op[c] = "isPoweredOn"
                 THEN Follow(c, g, Return(r.err))
                 ELSE Follow(c, g, powerOn(r))
    /\ UNCHANGED <<op, sent, managedSystemRef, invokeResp, overlap, ack>>

\* requestpowerState, lines 159-165: the re-read and the validation.
RequestRead(c, R) ==
    /\ pc[c] = "requestpowerState"
    /\ \E read \in R :
          LET g == read.parsed
              err == requestpowerStateCheck(g, requested[c])
          IN  /\ StatusTrip(c, read)
              /\ IF err # Nil
                 THEN /\ pc' = [pc EXCEPT ![c] = "done"]
                      /\ result' = [result EXCEPT ![c] = returnOf(-1, err)]
                 ELSE /\ pc' = [pc EXCEPT ![c] = "makeManagedElement"]
                      /\ UNCHANGED result
    /\ UNCHANGED <<op, deleg, isOn, request, requested, offered, sent,
                   managedSystemRef, invokeResp, overlap, ack>>

\* requestpowerState, lines 166-173: the managed-system reference lookup.
RequestRef(c) ==
    /\ pc[c] = "makeManagedElement"
    /\ \E ref \in RefResponses :
          LET err == makeManagedElement(ref)
          IN  /\ calls' = [calls EXCEPT ![c] = Append(@, "ref")]
              /\ managedSystemRef' = [managedSystemRef EXCEPT ![c] = ref]
              /\ failure' = [failure EXCEPT ![c] = err]
              /\ IF err # Nil
                 THEN /\ pc' = [pc EXCEPT ![c] = "done"]
                      /\ result' = [result EXCEPT ![c] = returnOf(-1, err)]
                 ELSE /\ pc' = [pc EXCEPT ![c] = "Send"]
                      /\ UNCHANGED result
    /\ UNCHANGED <<op, deleg, enumResp, status, readBy, isOn, request, requested,
                   offered, sent, invokeResp, overlap, ack>>

\* Mutant of the invocation step: an invocation that failed is sent again.
RequestSendRetries(c) ==
    /\ pc[c] = "Send"
    /\ \E response \in InvokeResponses :
          LET r == requestpowerStateResult(response)
          IN  /\ calls' = [calls EXCEPT ![c] = Append(@, "invoke")]
              /\ sent' = [sent EXCEPT ![c] = Append(@, Sprint(requested[c]))]
              /\ invokeResp' = [invokeResp EXCEPT ![c] = response]
              /\ failure' = [failure EXCEPT ![c] = r.err]
              /\ ack' = [ack EXCEPT ![c] = r.code]
              /\ result' = [result EXCEPT ![c] = returnOf(r.code, r.err)]
              /\ pc' = [pc EXCEPT ![c] = IF r.err = Nil \/ Len(sent[c]) >= 2
                                         THEN "done" ELSE "Send"]
    /\ overlap' = [overlap EXCEPT ![c] = FALSE]
    /\ UNCHANGED <<op, deleg, enumResp, status, readBy, isOn, request, requested,
                   offered, managedSystemRef>>

\* Mutant of the invocation step: requests are deduplicated, a caller does
\* not send a target that another caller has already sent.
RequestSendDeduplicated(c) ==
    /\ pc[c] = "Send"
    /\ \A d \in Callers \ {c} : sent[d] # <<Sprint(requested[c])>>
    /\ \E response \in InvokeResponses :
          LET r == requestpowerStateResult(response)
          IN  /\ calls' = [calls EXCEPT ![c] = Append(@, "invoke")]
              /\ sent' = [sent EXCEPT ![c] = Append(@, Sprint(requested[c]))]
              /\ invokeResp' = [invokeResp EXCEPT ![c] = response]
              /\ failure' = [failure EXCEPT ![c] = r.err]
              /\ ack' = [ack EXCEPT ![c] = r.code]
              /\ result' = [result EXCEPT ![c] = returnOf(r.code, r.err)]
    /\ overlap' = [overlap EXCEPT ![c] = FALSE]
    /\ pc' = [pc EXCEPT ![c] = "done"]
    /\ UNCHANGED <<op, deleg, enumResp, status, readBy, isOn, request, requested,
                   offered, managedSystemRef>>

\* requestpowerState, lines 175-189: the invocation and its acknowledgment,
\* and the return of the operation.
RequestSend(c) ==
    /\ pc[c] = "Send"
    /\ \E response \in InvokeResponses :
          LET r == requestpowerStateResult(response)
          IN  /\ calls' = [calls EXCEPT ![c] = Append(@, "invoke")]
              /\ sent' = [sent EXCEPT ![c] = Append(@, Sprint(requested[c]))]
              /\ invokeResp' = [invokeResp EXCEPT ![c] = response]
              /\ failure' = [failure EXCEPT ![c] = r.err]
              /\ ack' = [ack EXCEPT ![c] = r.code]
              /\ result' = [result EXCEPT ![c] = returnOf(r.code, r.err)]
    /\ overlap' = [overlap EXCEPT ![c] =
                      \E d \in Callers \ {c} :
                          /\ pc[d] \in {"requestpowerState", "makeManagedElement",
                                        "Send"}
                          /\ requested[d] = requested[c]]
    /\ pc' = [pc EXCEPT ![c] = "done"]
    /\ UNCHANGED <<op, deleg, enumResp, status, readBy, isOn, request, requested,
                   offered, managedSystemRef>>

\* The remote calls of an operation under way.
Remote(c, R) ==
    \/ PowerOffRead(c, R)
    \/ PowerCycleRead(c, R)
    \/ IsPoweredOnRead(c, R)
    \/ RequestRead(c, R)
    \/ RequestRef(c)
    \/ RequestSend(c)

Step(c, R) == Call(c) \/ Remote(c, R)

\* One caller at a time against a device that may advertise anything.
Next == Step(1, StatusReads)

Spec == Init /\ [][Next]_vars

\* One caller whose remote calls all return: an operation under way makes
\* its next step.
NextLive == Step(1, LiveReads)

SpecLive == Init /\ [][NextLive]_vars /\ WF_vars(Remote(1, LiveReads))

\* Two callers against the same device, their remote calls interleaved in
\* any order: the package holds no lock and shares nothing but the transport.
NextConc == \E c \in Callers : Step(c, ConcReads)

SpecConc == Init /\ [][NextConc]_vars

(***************************************************************************)
(* Properties.                                                             *)
(***************************************************************************)
Avail(c) == status[c].AvailableRequestedpowerStates

\* The status held is the one function f read, and the read succeeded.
Read(c, f) == readBy[c] = f /\ status[c].set

\* C1: powerOn is idempotent.  Whenever the status powerOn read (called
\* directly or by powerCycle) reports the current state On, powerOn has
\* returned success after that single read and no invocation was sent,
\* whatever the list of available states.
C1_PowerOnIdempotent ==
    \A c \in Callers :
        /\ op[c] = "powerOn" \/ deleg[c]
        /\ Read(c, "isPoweredOn")
        /\ status[c].powerState = powerStateOn
        => /\ pc[c] = "done"
           /\ result[c] = Nil
           /\ sent[c] = <<>>
           /\ ~\E i \in 1..Len(calls[c]) : calls[c][i] \in {"ref", "invoke"}
           /\ calls[c][Len(calls[c])] = "status"

\* powerOn returned success on a device that is on and advertises On and
\* a graceful off.
C1_Witness ==
    \E c \in Callers :
        /\ op[c] = "powerOn" /\ pc[c] = "done" /\ result[c] = Nil
        /\ Read(c, "isPoweredOn")
        /\ status[c].powerState = powerStateOn
        /\ Avail(c) = <<powerStateOffSoftGraceful, powerStateOn>>
        /\ calls[c] = <<"status">>

\* C2: powerOff is a no-op on a device that is not on.  Whenever the status
\* powerOff read reports a current state other than On, powerOff has
\* returned success, that read is its only remote call and no invocation
\* was sent.
C2_PowerOffNoOp ==
    \A c \in Callers :
        /\ op[c] = "powerOff"
        /\ Read(c, "powerOff")
        /\ status[c].powerState # powerStateOn
        => /\ pc[c] = "done"
           /\ result[c] = Nil
           /\ sent[c] = <<>>
           /\ calls[c] = <<"status">>

\* powerOff returned success on a device in state OffSoft although a hard
\* off is advertised.
C2_Witness ==
    \E c \in Callers :
        /\ op[c] = "powerOff" /\ pc[c] = "done" /\ result[c] = Nil
        /\ Read(c, "powerOff")
        /\ status[c].powerState = powerStateOffSoft
        /\ powerStateOffHard \in Range(Avail(c))
        /\ calls[c] = <<"status">>

\* C3: powerOff on a device that is on and advertises no state of the off
\* preference table (the empty list included) fails with
\* NoTransitionAvailable carrying the current state and the whole list of
\* available states of the status it read, after that single read and with
\* no invocation sent.
C3_PowerOffNoTransition ==
    \A c \in Callers :
        /\ op[c] = "powerOff"
        /\ Read(c, "powerOff")
        /\ status[c].powerState = powerStateOn
        /\ Range(getPowerOffStates) \cap Range(Avail(c)) = {}
        => /\ pc[c] = "done"
           /\ result[c].kind = "NoTransitionAvailable"
           /\ result[c].cur = status[c].powerState
           /\ result[c].avail = Avail(c)
           /\ sent[c] = <<>>
           /\ calls[c] = <<"status">>

\* powerOff failed on a device that is on and advertises only the sentinel
\* and a power cycle.
C3_Witness ==
    \E c \in Callers :
        /\ op[c] = "powerOff" /\ pc[c] = "done"
        /\ Read(c, "powerOff")
        /\ status[c].powerState = powerStateOn
        /\ Avail(c) = <<powerStateUnknown, powerStatePowerCycleOffSoftGraceful>>
        /\ result[c].kind = "NoTransitionAvailable"
        /\ result[c].avail = Avail(c)

\* C4, as claimed: powerCycle on a device that is on and advertises no
\* state of the cycle preference table fails with NoTransitionAvailable
\* carrying the current state and the list of the status it read, without
\* a second status read and without an invocation.
C4_PowerCycleNoTransition ==
    \A c \in Callers :
        /\ op[c] = "powerCycle"
        /\ Read(c, "powerCycle")
        /\ status[c].powerState = powerStateOn
        /\ Range(getPowerCycleStates) \cap Range(Avail(c)) = {}
        => /\ pc[c] = "done"
           /\ result[c].kind = "NoTransitionAvailable"
           /\ result[c].cur = status[c].powerState
           /\ result[c].avail = Avail(c)
           /\ sent[c] = <<>>
           /\ calls[c] = <<"status">>

\* What powerOn does and returns, cs being the round trips made since
\* powerOn was entered: it selects nothing, requests only On, and returns
\* the failure of the remote call that failed, success on a device that is
\* on, requestpowerState's refusal, or success after the invocation.
PowerOnCalls == <<"status", "status", "ref", "invoke">>

PowerOnBehaviour(c, cs) ==
    /\ request[c] = -1
    /\ requested[c] \in {-1, powerStateOn}
    /\ \A i \in 1..Len(sent[c]) :
          Atoi(sent[c][i]) = [ok |-> TRUE, num |-> powerStateOn]
    /\ Len(cs) <= Len(PowerOnCalls) /\ cs = SubSeq(PowerOnCalls, 1, Len(cs))
    /\ pc[c] = "done" =>
          result[c] =
              IF failure[c] # Nil THEN failure[c]
              ELSE IF Len(cs) = 2
              THEN NoTransition("requestpowerState", powerStateOn, status[c])
              ELSE Nil

\* C5: powerCycle on a device whose first status read shows a current
\* state other than On delegates entirely to powerOn.  After that read it
\* has done nothing but call powerOn; from then on it behaves and returns
\* as powerOn called directly does, and every invocation it sends names On.
C5_PowerCycleDelegates ==
    \A c \in Callers :
        /\ /\ op[c] = "powerCycle"
           /\ Read(c, "powerCycle")
           /\ status[c].powerState # powerStateOn
           => /\ pc[c] = "isPoweredOn" /\ deleg[c]
              /\ calls[c] = <<"status">> /\ sent[c] = <<>>
        /\ op[c] = "powerOn" => PowerOnBehaviour(c, calls[c])
        /\ deleg[c] =>
              /\ op[c] = "powerCycle"
              /\ calls[c][1] = "status"
              /\ PowerOnBehaviour(c, Tail(calls[c]))

\* A delegating powerCycle has sent one invocation, naming On, and
\* returned success.
C5_Witness ==
    \E c \in Callers :
        /\ op[c] = "powerCycle" /\ deleg[c] /\ pc[c] = "done"
        /\ sent[c] = <<Sprint(powerStateOn)>>
        /\ result[c] = Nil
        /\ Len(calls[c]) = 5

\* C6: requestpowerState re-reads the status and, when its target is not
\* among the available states of that re-read, fails with
\* NoTransitionAvailable naming the target and that re-read, with no
\* reference lookup and no invocation; and an invocation is sent only after
\* a status read by requestpowerState that lists the invoked target.
C6_RevalidatedBeforeSend ==
    \A c \in Callers :
        /\ /\ Read(c, "requestpowerState")
           /\ requested[c] \notin Range(Avail(c))
           => /\ pc[c] = "done"
              /\ result[c] = NoTransition("requestpowerState", requested[c],
                                          status[c])
              /\ sent[c] = <<>>
              /\ calls[c][Len(calls[c])] = "status"
        /\ sent[c] # <<>> =>
              /\ Read(c, "requestpowerState")
              /\ Len(sent[c]) = 1
              /\ Atoi(sent[c][1]).ok
              /\ Atoi(sent[c][1]).num \in Range(Avail(c))

\* powerOff selected a target its own status listed, and requestpowerState
\* refused it because the re-read no longer lists it.
C6_Witness ==
    \E c \in Callers :
        /\ op[c] = "powerOff" /\ offered[c] /\ pc[c] = "done"
        /\ Read(c, "requestpowerState")
        /\ requested[c] = powerStateOffSoftGraceful
        /\ Avail(c) = <<powerStateOffHard>>
        /\ result[c].kind = "NoTransitionAvailable"
        /\ sent[c] = <<>>

\* The preference table that powerOff or powerCycle selects from.
TableOf(f) == IF f = "powerOff" THEN getPowerOffStates ELSE getPowerCycleStates

\* C7: selectNextState returns the first state of the preference list, in
\* preference order, that occurs in the available list, whatever the order
\* and the duplicates of the available list, and returns the sentinel
\* unknown (0) exactly when the two lists share no state.  Checked on each
\* selection powerOff and powerCycle make.
C7_SelectFirstPreferred ==
    \A c \in Callers :
        /\ readBy[c] \in {"powerOff", "powerCycle"}
        /\ status[c].set
        /\ status[c].powerState = powerStateOn
        => LET prefs == TableOf(readBy[c])
               hits  == {i \in 1..Len(prefs) : prefs[i] \in Range(Avail(c))}
           IN  /\ hits = {} <=> request[c] = powerStateUnknown
               /\ hits # {} =>
                     request[c] = prefs[CHOOSE i \in hits : \A j \in hits : i <= j]
               /\ \A other \in AvailLists :
                     Range(other) = Range(Avail(c)) =>
                         selectNextState(prefs, other) = request[c]

\* powerOff selected the graceful soft off although the device lists the
\* hard off first.
C7_Witness ==
    \E c \in Callers :
        /\ Read(c, "powerOff")
        /\ status[c].powerState = powerStateOn
        /\ Avail(c) = <<powerStateOffHard, powerStateOffSoftGraceful>>
        /\ request[c] = powerStateOffSoftGraceful

\* The most remote round trips an operation makes.
MaxTrips(o) ==
    IF o = "powerCycle" THEN 5
    ELSE IF o \in {"powerOn", "powerOff"} THEN 4
    ELSE IF o = "isPoweredOn" THEN 1
    ELSE 0

\* C8, as claimed: every public operation makes at most two remote round
\* trips (status reads, reference lookup and invocation counted together).
C8_AtMostTwoRoundTrips ==
    \A c \in Callers : Len(calls[c]) <= 2

\* C8, amended: powerOn and powerOff make at most four remote round trips
\* (two status reads, the reference lookup, the invocation) and powerCycle
\* at most five (one more status read when it delegates to powerOn), one
\* after the other.
C8_BoundedRoundTrips ==
    \A c \in Callers :
        /\ Len(calls[c]) <= MaxTrips(op[c])
        /\ op[c] \in {"powerOn", "powerOff"} =>
              calls[c] = SubSeq(PowerOnCalls, 1, Len(calls[c]))
        /\ op[c] = "powerCycle" =>
              calls[c] = SubSeq(<<"status">> \o PowerOnCalls, 1, Len(calls[c]))
              \/ calls[c] = SubSeq(PowerOnCalls, 1, Len(calls[c]))

\* A powerCycle that delegated to powerOn has made five round trips.
C8_Witness ==
    \E c \in Callers :
        /\ op[c] = "powerCycle" /\ pc[c] = "done"
        /\ calls[c] = <<"status", "status", "status", "ref", "invoke">>

\* C9: no failure is recovered or retried.  Once a remote call (status
\* read, reference lookup, invocation) has failed, the operation is over:
\* it has made no remote call since and has returned that failure as it was.
C9_FailurePropagates ==
    \A c \in Callers :
        failure[c] # Nil => pc[c] = "done" /\ result[c] = failure[c]

\* powerOff returned the transport error of the status read made by
\* requestpowerState, its second round trip.
C9_Witness ==
    \E c \in Callers :
        /\ op[c] = "powerOff" /\ pc[c] = "done"
        /\ readBy[c] = "requestpowerState"
        /\ calls[c] = <<"status", "status">>
        /\ failure[c].kind \in TransportErrs
        /\ result[c] = failure[c]

\* C10: isPoweredOn is a total classification: it reports true exactly when
\* the status it read has the current state On, and false for every other
\* code, 0, the off, sleep and reset codes and vendor codes included.
C10_IsOnIffOn ==
    \A c \in Callers :
        /\ readBy[c] = "isPoweredOn" =>
              (isOn[c] <=> status[c].set /\ status[c].powerState = powerStateOn)
        /\ Read(c, "isPoweredOn") /\ pc[c] = "done" /\ result[c] = Nil
           /\ op[c] # "isPoweredOn" =>
              status[c].powerState = powerStateOn

\* isPoweredOn reported false for a vendor-specific code.
C10_Witness ==
    \E c \in Callers :
        /\ op[c] = "isPoweredOn" /\ pc[c] = "done" /\ result[c] = Nil
        /\ Read(c, "isPoweredOn")
        /\ status[c].powerState = VendorCode
        /\ ~isOn[c]

\* C11: concurrent calls are not coordinated.  With two callers at work on
\* the same device, no caller ever waits for the other or is turned away
\* because of it: a caller that may start an operation can start it, and a
\* caller inside an operation can make its next remote call (status read,
\* reference lookup, invocation), whatever the other caller has read,
\* selected or already sent; so two powerOff calls that both read On and
\* select the same target both send it.
C11_Uncoordinated ==
    \A c \in Callers :
        /\ pc[c] \in {"idle", "done"} => ENABLED Call(c)
        /\ pc[c] \notin {"idle", "done"} => ENABLED Remote(c, ConcReads)
        /\ pc[c] = "Send" => ENABLED RequestSend(c)

\* Two powerOff calls have both read On, both selected the graceful soft
\* off and both sent it, one of them while the other was inside
\* requestpowerState for that same target.
C11_Witness ==
    /\ \A c \in Callers :
          /\ op[c] = "powerOff" /\ pc[c] = "done"
          /\ request[c] = powerStateOffSoftGraceful
          /\ sent[c] = <<Sprint(powerStateOffSoftGraceful)>>
          /\ calls[c] = <<"status", "status", "ref", "invoke">>
    /\ \E c \in Callers : overlap[c]
\* C12: requestpowerState fails with MissingReference when the lookup of
\* the managed-system endpoint reference returns no reference (and no
\* error): the operation is then over with that error, the lookup was its
\* last remote call and no invocation was sent.  And the lookup is made
\* only after requestpowerState's own status read listed the target.
C12_MissingReference ==
    \A c \in Callers :
        /\ managedSystemRef[c].err = "none" /\ managedSystemRef[c].nil
           => /\ pc[c] = "done"
              /\ result[c] = Err("MissingReference", "makeManagedElement")
              /\ sent[c] = <<>>
              /\ calls[c][Len(calls[c])] = "ref"
        /\ managedSystemRef[c] # NoRef
           => /\ Read(c, "requestpowerState")
              /\ requested[c] \in Range(Avail(c))
              /\ \E i \in 2..Len(calls[c]) :
                    /\ calls[c][i] = "ref" /\ calls[c][i - 1] = "status"
                    /\ \A j \in 1..Len(calls[c]) : calls[c][j] = "ref" => j = i

\* powerOff selected the hard off, the re-read listed it, and the lookup
\* returned no reference.
C12_Witness ==
    \E c \in Callers :
        /\ op[c] = "powerOff" /\ pc[c] = "done"
        /\ requested[c] = powerStateOffHard
        /\ managedSystemRef[c].err = "none" /\ managedSystemRef[c].nil
        /\ result[c].kind = "MissingReference"
        /\ calls[c] = <<"status", "status", "ref">>
\* The content is a decimal numeral without sign.
IsNumeral(content) ==
    content # <<>> /\ \A i \in 1..Len(content) : IsDigit(content[i])

\* C13: after an invocation that was sent and answered, requestpowerState
\* fails with ProtocolError if the response body is absent or has other
\* than exactly one child element, fails with DecodeError if that element
\* is not numeric, and otherwise succeeds with that element's integer value
\* as the acknowledgment code.
C13_AcknowledgmentParsed ==
    \A c \in Callers :
        invokeResp[c] # NoInvoke /\ invokeResp[c].sendErr = "none"
        => LET body == invokeResp[c].bodyChildren
           IN  /\ pc[c] = "done" /\ sent[c] # <<>>
               /\ IF invokeResp[c].bodyNil \/ Len(body) # 1
                  THEN failure[c].kind = "ProtocolError" /\ ack[c] = -1
                  ELSE IF ~IsNumeral(body[1])
                  THEN failure[c].kind = "DecodeError" /\ ack[c] = -1
                  ELSE failure[c] = Nil /\ Sprint(ack[c]) = body[1]

\* A body with two numeric children was refused as a protocol error.
C13_Witness ==
    \E c \in Callers :
        /\ pc[c] = "done" /\ sent[c] # <<>>
        /\ invokeResp[c].sendErr = "none" /\ ~invokeResp[c].bodyNil
        /\ Len(invokeResp[c].bodyChildren) = 2
        /\ failure[c].kind = "ProtocolError"
        /\ ack[c] = -1
\* The latest remote call of the caller was a status read.
LastWasRead(c) == calls[c] # <<>> /\ calls[c][Len(calls[c])] = "status"

\* The children of the first association item of an enumeration response
\* that belong to one of the three status fields, in the order received.
IsAssoc(item) == item.local = AssocLocal /\ item.space = AssocSpace

IsField(e) ==
    e.local \in {"PowerState", "RequestedPowerState",
                 "AvailableRequestedPowerStates"}

IsAvailField(e) == e.local = "AvailableRequestedPowerStates"

FieldsOf(resp) ==
    LET assoc == SelectSeq(resp.items, IsAssoc)
    IN  IF assoc = <<>> THEN <<>> ELSE SelectSeq(assoc[1].children, IsField)

\* C14: getPowerStatus returns a status or an error, never both and never
\* a status cut short.  It returns a status exactly when the enumeration
\* succeeded, holds an association item and every content of the three
\* fields is numeric; the available states are then the entries of that
\* item in the order received, duplicates kept.  A missing association item
\* yields a protocol error and a non-numeric content a decode error, both
\* with no status.
C14_StatusOrError ==
    \A c \in Callers :
        enumResp[c] # NoEnum
        => LET resp   == enumResp[c]
               sentOk == resp.sendErr = "none" /\ resp.enumErr = "none"
               found  == SelectSeq(resp.items, IsAssoc) # <<>>
               fields == FieldsOf(resp)
               avails == SelectSeq(fields, IsAvailField)
               good   == \A i \in 1..Len(fields) : IsNumeral(fields[i].content)
           IN  /\ status[c].set <=> sentOk /\ found /\ good
               /\ ~status[c].set => status[c] = NoStatus
               /\ status[c].set =>
                     /\ Len(Avail(c)) = Len(avails)
                     /\ \A i \in 1..Len(avails) :
                           Sprint(Avail(c)[i]) = avails[i].content
               /\ LastWasRead(c) =>
                     /\ failure[c] = Nil <=> status[c].set
                     /\ failure[c] # Nil => pc[c] = "done"
                     /\ sentOk /\ ~found => failure[c].kind = "ProtocolError"
                     /\ sentOk /\ found /\ ~good =>
                           failure[c].kind = "DecodeError"

\* A response whose association item holds an available state, a current
\* state and then a requested state that is not numeric gave a decode
\* error and no status.
C14_Witness ==
    \E c \in Callers :
        /\ LastWasRead(c) /\ pc[c] = "done"
        /\ Len(SelectSeq(FieldsOf(enumResp[c]), IsAvailField)) = 1
        /\ Len(FieldsOf(enumResp[c])) = 3
        /\ failure[c].kind = "DecodeError"
        /\ status[c] = NoStatus
IsCurField(e) == e.local = "PowerState"

IsReqField(e) == e.local = "RequestedPowerState"

\* The content of the last element of fields, "0" if there is none: what
\* the field of a fresh powerStatus holds after the loop of lines 64-85.
LastContent(fields) ==
    IF fields = <<>> THEN <<"0">> ELSE fields[Len(fields)].content

\* C15: power-state codes round-trip unchanged.  In every status read, the
\* current state, the requested state and each available state are the
\* integers the device reported, named constant or not (30000 and the
\* vendor codes included): written back as decimal they are the contents
\* received, a code other than 0 is never stored as unknown (0), and a
\* numeric content never gives a decode error.  The code an error names
\* is the current state of the status it was made from, and the code an
\* invocation names is one the device listed.
C15_CodesRoundTrip ==
    \A c \in Callers :
        LET fields == FieldsOf(enumResp[c])
            cur    == LastContent(SelectSeq(fields, IsCurField))
            req    == LastContent(SelectSeq(fields, IsReqField))
            avails == SelectSeq(fields, IsAvailField)
        IN  /\ status[c].set =>
                  /\ Sprint(status[c].powerState) = cur
                  /\ Sprint(status[c].RequestedpowerState) = req
                  /\ cur # <<"0">> => status[c].powerState # powerStateUnknown
                  /\ \A i \in 1..Len(avails) :
                        /\ Sprint(Avail(c)[i]) = avails[i].content
                        /\ Atoi(Sprint(Avail(c)[i])).num = Avail(c)[i]
                  /\ isOn[c] /\ readBy[c] = "isPoweredOn" =>
                        cur = Sprint(powerStateOn)
            /\ /\ enumResp[c] # NoEnum /\ LastWasRead(c)
               /\ enumResp[c].sendErr = "none" /\ enumResp[c].enumErr = "none"
               /\ SelectSeq(enumResp[c].items, IsAssoc) # <<>>
               /\ \A i \in 1..Len(fields) : IsNumeral(fields[i].content)
               => failure[c] = Nil /\ status[c].set
            /\ result[c].kind = "NoTransitionAvailable" =>
                  /\ Sprint(result[c].cur) = cur
                  /\ result[c].avail = Avail(c)
            /\ sent[c] # <<>> =>
                  \E i \in 1..Len(avails) : avails[i].content = sent[c][1]

\* A status read stored the reserved code 30000 as the current state, with
\* no error, and classified it as not on.
C15_Witness ==
    \E c \in Callers :
        /\ op[c] = "isPoweredOn" /\ pc[c] = "done" /\ result[c] = Nil
        /\ status[c].set
        /\ status[c].powerState = ReservedCode
        /\ Sprint(status[c].powerState) = <<"3", "0", "0", "0", "0">>
        /\ ~isOn[c]
\* The invocation of powerOff or of a powerCycle that found the device on.
SentOwnTarget(c) ==
    op[c] \in {"powerOff", "powerCycle"} /\ ~deleg[c] /\ sent[c] # <<>>

\* C16, as claimed: whenever powerOff or powerCycle (device on) sends a
\* transition request for target t, no state that precedes t in the
\* preference table is among the available states of the status re-read
\* by requestpowerState just before sending.
C16_MostGracefulAtReRead ==
    \A c \in Callers :
        SentOwnTarget(c)
        => LET table == TableOf(op[c])
               t     == Atoi(sent[c][1]).num
           IN  /\ Read(c, "requestpowerState")
               /\ \A j \in 1..Len(table) : \A i \in 1..(j - 1) :
                     table[j] = t => table[i] \notin Range(Avail(c))

\* C16, amended: the most graceful state wins among those of the status
\* the operation itself read.  When powerOff or powerCycle (device on)
\* calls requestpowerState, every state of the preference table that its
\* own status lists is the selected target or comes after it in the table;
\* the target is not selected again afterwards; and the request sent names
\* that target, which the re-read by requestpowerState lists, whatever
\* more preferred states that re-read lists besides.
C16_MostGracefulAtSelection ==
    /\ [](\A c \in Callers :
            /\ /\ readBy[c] \in {"powerOff", "powerCycle"}
               /\ pc[c] = "requestpowerState"
               => LET table == TableOf(readBy[c])
                  IN  /\ requested[c] = request[c]
                      /\ \A i \in 1..Len(table) :
                            table[i] \in Range(Avail(c)) =>
                                \E j \in 1..i : table[j] = request[c]
            /\ SentOwnTarget(c)
               => /\ sent[c] = <<Sprint(request[c])>>
                  /\ Read(c, "requestpowerState")
                  /\ request[c] \in Range(Avail(c)))
    /\ [][\A c \in Callers :
            pc[c] \in {"requestpowerState", "makeManagedElement", "Send"}
            => request'[c] = request[c] /\ requested'[c] = requested[c]]_vars

\* powerOff selected the hard off from a status that listed nothing
\* better and sent it, although the re-read also listed the graceful soft
\* off.
C16_Witness ==
    \E c \in Callers :
        /\ op[c] = "powerOff" /\ pc[c] = "done"
        /\ request[c] = powerStateOffHard
        /\ sent[c] = <<Sprint(powerStateOffHard)>>
        /\ Read(c, "requestpowerState")
        /\ powerStateOffSoftGraceful \in Range(Avail(c))
\* C17, as claimed: every transition request sent names an intended
\* target.  A request sent by powerOn names On, one sent by powerOff a
\* state of the off preference table, one sent by powerCycle On or a state
\* of the cycle preference table; no request names the sentinel unknown
\* (0), whatever the device advertises across the reads of the operation.
C17_SendsIntendedTarget ==
    \A c \in Callers : \A i \in 1..Len(sent[c]) :
        LET t == Atoi(sent[c][i]).num
        IN  /\ t # powerStateUnknown
            /\ op[c] = "powerOn" => t = powerStateOn
            /\ op[c] = "powerOff" => t \in Range(getPowerOffStates)
            /\ op[c] = "powerCycle" =>
                  t \in {powerStateOn} \cup Range(getPowerCycleStates)
\* The positions of the remote calls of one kind among those made.
CallsOf(c, kind) == {i \in 1..Len(calls[c]) : calls[c][i] = kind}

\* What the function that made the latest status read decided on it.
DecisionOn(c) ==
    LET g == [err |-> failure[c], status |-> status[c]]
    IN  IF readBy[c] = "powerOff" THEN powerOff(g)
        ELSE IF readBy[c] = "powerCycle" THEN powerCycle(g)
        ELSE IF op[c] = "isPoweredOn" THEN Return(isPoweredOn(g).err)
        ELSE powerOn(isPoweredOn(g))

\* C18: every operation follows read, decide, act.  Its first remote call
\* is a status read; when it starts it holds no status, target or response
\* of an earlier call, and any status it holds was read inside the call;
\* what it does after a status read is decided on that read alone; at most
\* one invocation is sent, as the last remote call of the operation.
C18_ReadDecideAct ==
    \A c \in Callers :
        /\ calls[c] # <<>> => calls[c][1] = "status"
        /\ calls[c] = <<>> =>
              /\ status[c] = NoStatus /\ enumResp[c] = NoEnum
              /\ request[c] = -1 /\ requested[c] = -1 /\ sent[c] = <<>>
        /\ status[c].set => CallsOf(c, "status") # {}
        /\ LastWasRead(c) /\ readBy[c] # "requestpowerState" =>
              LET d == DecisionOn(c)
              IN  /\ request[c] = d.request /\ requested[c] = d.requested
                  /\ d.next = "return" <=> pc[c] = "done"
                  /\ d.next = "return" => result[c] = d.err
                  /\ d.next = "request" <=> pc[c] = "requestpowerState"
                  /\ d.next = "powerOn" <=> pc[c] = "isPoweredOn"
        /\ Cardinality(CallsOf(c, "invoke")) <= 1
        /\ Len(sent[c]) = Cardinality(CallsOf(c, "invoke"))
        /\ \A i \in CallsOf(c, "invoke") :
              /\ i = Len(calls[c]) /\ pc[c] = "done"
              /\ CallsOf(c, "status") # {} /\ \A j \in CallsOf(c, "status") : j < i

\* powerOn read a device that is off, decided to request On, and its one
\* invocation was its last remote call.
C18_Witness ==
    \E c \in Callers :
        /\ op[c] = "powerOn" /\ pc[c] = "done" /\ result[c] = Nil
        /\ ~isOn[c]
        /\ calls[c] = <<"status", "status", "ref", "invoke">>
        /\ sent[c] = <<Sprint(powerStateOn)>>
        /\ ack[c] = 0
\* C19: the acknowledgment code is not interpreted.  After an invocation
\* was sent, powerOn, powerOff and powerCycle return success exactly when
\* the response holds one numeric element, whatever its value (a non-zero
\* return code of the device included); when they return failure it is the
\* transport, protocol or decode error of the invocation.
C19_AckNotInterpreted ==
    \A c \in Callers :
        op[c] \in {"powerOn", "powerOff", "powerCycle"} /\ sent[c] # <<>>
        => LET resp == invokeResp[c]
               parsed == /\ resp.sendErr = "none" /\ ~resp.bodyNil
                         /\ Len(resp.bodyChildren) = 1
                         /\ IsNumeral(resp.bodyChildren[1])
           IN  /\ pc[c] = "done"
               /\ result[c] = Nil <=> parsed
               /\ parsed => Sprint(ack[c]) = resp.bodyChildren[1]
               /\ result[c] # Nil =>
                     /\ result[c] = failure[c]
                     /\ result[c].kind \in
                            TransportErrs \cup {"ProtocolError", "DecodeError"}

\* powerOff returned success although the device acknowledged with the
\* return code 2.
C19_Witness ==
    \E c \in Callers :
        /\ op[c] = "powerOff" /\ pc[c] = "done"
        /\ sent[c] # <<>>
        /\ invokeResp[c].bodyChildren = <<<<"2">>>>
        /\ ack[c] = 2
        /\ result[c] = Nil
\* The most status reads an operation makes.
MaxReads(o) ==
    IF o = "powerCycle" THEN 3
    ELSE IF o \in {"powerOn", "powerOff"} THEN 2
    ELSE IF o = "isPoweredOn" THEN 1
    ELSE 0

\* C20: every operation terminates with bounded remote work, provided each
\* remote call returns.  powerOn and powerOff make at most two status
\* reads and powerCycle at most three (its own, powerOn's, the re-read of
\* requestpowerState); each makes at most one reference lookup and one
\* invocation; once powerCycle has called powerOn, powerCycle's own read
\* is never made again; and an operation that was started returns.
C20_Terminates ==
    /\ [](\A c \in Callers :
            /\ Cardinality(CallsOf(c, "status")) <= MaxReads(op[c])
            /\ Cardinality(CallsOf(c, "ref")) <= 1
            /\ Cardinality(CallsOf(c, "invoke")) <= 1
            /\ Len(calls[c]) =
                  Cardinality(CallsOf(c, "status") \cup CallsOf(c, "ref")
                              \cup CallsOf(c, "invoke"))
            /\ deleg[c] => pc[c] # "powerCycle"
            /\ readBy[c] = "powerCycle" => calls[c] = <<"status">>)
    /\ \A c \in Callers : pc[c] \notin {"idle", "done"} ~> pc[c] = "done"

\* A powerCycle that called powerOn returned after its third status read,
\* requestpowerState having found On not available.
C20_Witness ==
    \E c \in Callers :
        /\ op[c] = "powerCycle" /\ deleg[c] /\ pc[c] = "done"
        /\ calls[c] = <<"status", "status", "status">>
        /\ result[c].kind = "NoTransitionAvailable"
        /\ result[c].target = powerStateOn

====
